---- MODULE Spec2Model ----
(***************************************************************************)
(* Model of deoooo/deploy (src/main.go): trigger a Jenkins job, wait for   *)
(* it, then monitor the Kubernetes rollout of a deployment against a       *)
(* snapshot of the pod UIDs taken before the job was triggered.            *)
(***************************************************************************)
EXTENDS Integers, Sequences, FiniteSets, TLC

(***************************************************************************)
(* Bounds of the model.                                                    *)
(***************************************************************************)
\* pod identities that exist before the job is triggered: 1..NumPre
NumPre == 1
\* pod identities that first exist after the job is triggered
NumPost == 2
\* longest pod list the cluster returns
MaxPods == 2
\* largest deployment.Spec.Replicas
MaxReplicas == 2
\* largest console length of the CI job
MaxLog == 2
\* largest number of seconds between two polls of the build
MaxTick == 16
\* largest number of configured build parameters
MaxParams == 2
\* largest number of containers of a pod given to the pod functions
MaxContainers == 1

(***************************************************************************)
(* Program constants.                                                      *)
(***************************************************************************)
maxRetries == 120
GracePeriod == 10
RestartThreshold == 3
RestartWindow == 60
NoRestartSeconds == 1000
LogThresholdSeconds == 30

PreUIDs == 1..NumPre
PostUIDs == (NumPre + 1)..(NumPre + NumPost)
AllUIDs == PreUIDs \cup PostUIDs

(***************************************************************************)
(* Pods.  A pod is [uid, status]; status is [phase, conditions,            *)
(* containerStatuses]; a container status is [ready, restartCount,         *)
(* lastTerminated, finishedAtZero, sinceFinished, waiting] where           *)
(* lastTerminated says LastTerminationState.Terminated != nil,             *)
(* sinceFinished is now - FinishedAt in seconds and waiting is the reason  *)
(* of State.Waiting or "nil" when State.Waiting is nil.                    *)
(***************************************************************************)
Nil == "nil"

ReadyContainer ==
  [ready |-> TRUE, restartCount |-> 0, lastTerminated |-> FALSE,
   finishedAtZero |-> TRUE, sinceFinished |-> 0, waiting |-> Nil]

CreatingContainer ==
  [ready |-> FALSE, restartCount |-> 0, lastTerminated |-> FALSE,
   finishedAtZero |-> TRUE, sinceFinished |-> 0, waiting |-> "ContainerCreating"]

CrashLoopContainer ==
  [ready |-> FALSE, restartCount |-> 5, lastTerminated |-> TRUE,
   finishedAtZero |-> FALSE, sinceFinished |-> 10, waiting |-> "CrashLoopBackOff"]

HealthyStatus ==
  [phase |-> "Running",
   conditions |-> << [type |-> "Ready", status |-> "True"] >>,
   containerStatuses |-> << ReadyContainer >>]

PendingStatus ==
  [phase |-> "Pending",
   conditions |-> << [type |-> "Ready", status |-> "False"] >>,
   containerStatuses |-> << CreatingContainer >>]

CrashLoopStatus ==
  [phase |-> "Running",
   conditions |-> << [type |-> "Ready", status |-> "False"] >>,
   containerStatuses |-> << CrashLoopContainer >>]

\* the pod statuses the cluster reports during a rollout
MonitorStatuses == {HealthyStatus, PendingStatus, CrashLoopStatus}

RECURSIVE SortedSeq(_)
SortedSeq(S) ==
  IF S = {} THEN <<>>
  ELSE LET m == CHOOSE x \in S : \A y \in S : x <= y
       IN  <<m>> \o SortedSeq(S \ {m})

\* the pod lists over the identities uids: distinct identities, at most
\* MaxPods pods, in the order of the API server's list
PodLists(uids, statuses) ==
  UNION { { [i \in 1..Cardinality(S) |->
               [uid |-> SortedSeq(S)[i], status |-> f[SortedSeq(S)[i]]]] :
            f \in [S -> statuses] } :
          S \in {T \in SUBSET uids : Cardinality(T) <= MaxPods} }

PrePodLists == PodLists(PreUIDs, MonitorStatuses)
AllPodLists == PodLists(AllUIDs, MonitorStatuses)

\* the lists the cluster can return: the rollout the job starts creates the
\* PostUIDs, so they exist only once the job is triggered
ClusterPodLists(triggered) == IF triggered THEN AllPodLists ELSE PrePodLists

(***************************************************************************)
(* The pods given to the pod functions on their own.                       *)
(***************************************************************************)
Phases == {"Pending", "Running", "Succeeded", "Failed", "Unknown"}

ConditionLists ==
  { <<>>,
    << [type |-> "Ready", status |-> "True"] >>,
    << [type |-> "Ready", status |-> "False"] >>,
    << [type |-> "Ready", status |-> "Unknown"] >>,
    << [type |-> "PodScheduled", status |-> "False"] >>,
    << [type |-> "PodScheduled", status |-> "False"],
       [type |-> "Ready", status |-> "True"] >> }

\* seconds since the last termination: the two around the window, and an
\* hour
SinceValues == {RestartWindow - 1, RestartWindow, 3600}

\* LastTerminationState: none, one without a finish time, one with
RestartHistories ==
  { [lastTerminated |-> FALSE, finishedAtZero |-> TRUE, sinceFinished |-> 0],
    [lastTerminated |-> TRUE, finishedAtZero |-> TRUE, sinceFinished |-> 0] }
    \cup
  { [lastTerminated |-> TRUE, finishedAtZero |-> FALSE, sinceFinished |-> t] :
      t \in SinceValues }

Containers ==
  { [ready |-> r, restartCount |-> n, lastTerminated |-> h.lastTerminated,
     finishedAtZero |-> h.finishedAtZero, sinceFinished |-> h.sinceFinished,
     waiting |-> w] :
      r \in BOOLEAN, n \in {RestartThreshold, RestartThreshold + 1},
      h \in RestartHistories, w \in {Nil, "CrashLoopBackOff", "ImagePullBackOff"} }

ContainerLists == UNION { [1..n -> Containers] : n \in 0..MaxContainers }

EvalPods ==
  { [uid |-> 1,
     status |-> [phase |-> ph, conditions |-> cl, containerStatuses |-> cs]] :
      ph \in Phases, cl \in ConditionLists, cs \in ContainerLists }

(***************************************************************************)
(* Pure functions of src/main.go.                                          *)
(***************************************************************************)
RECURSIVE categorizeFrom(_, _, _, _, _)
categorizeFrom(items, uids, i, newPods, oldPods) ==
  IF i > Len(items) THEN [new |-> newPods, old |-> oldPods]
  ELSE IF items[i].uid \in uids
       THEN categorizeFrom(items, uids, i + 1, newPods, Append(oldPods, items[i]))
       ELSE categorizeFrom(items, uids, i + 1, Append(newPods, items[i]), oldPods)

\* faulty variant: old means "not younger than the youngest of the snapshot",
\* the comparison categorizePods makes on revisions
categorizePodsByUID_ByThreshold(podList, initialPodUIDs) ==
  categorizeFrom(podList,
                 {u \in AllUIDs : \E v \in initialPodUIDs : u <= v},
                 1, <<>>, <<>>)

categorizePodsByUID(podList, initialPodUIDs) ==
  categorizeFrom(podList, initialPodUIDs, 1, <<>>, <<>>)

timeFromLastRestart(cs) ==
  IF cs.lastTerminated /\ ~cs.finishedAtZero
  THEN cs.sinceFinished
  ELSE NoRestartSeconds

\* faulty variant: three restarts already count as a storm
restartStorm_CountInclusive(cs) ==
  cs.restartCount >= RestartThreshold /\ timeFromLastRestart(cs) < RestartWindow

\* main.go:540
restartStorm(cs) ==
  cs.restartCount > RestartThreshold /\ timeFromLastRestart(cs) < RestartWindow

\* main.go:526-530: a Ready condition that is not True is reported
notReadyCondition(pod) ==
  \E i \in 1..Len(pod.status.conditions) :
     /\ pod.status.conditions[i].type = "Ready"
     /\ pod.status.conditions[i].status # "True"

\* faulty variant: a waiting container is not refused
unhealthyContainer_IgnoresWaiting(pod) ==
  \E i \in 1..Len(pod.status.containerStatuses) :
     LET cs == pod.status.containerStatuses[i]
     IN  \/ ~cs.ready
         \/ restartStorm(cs)

\* main.go:533-548: a container fails one of the three checks of the loop
unhealthyContainer(pod) ==
  \E i \in 1..Len(pod.status.containerStatuses) :
     LET cs == pod.status.containerStatuses[i]
     IN  \/ ~cs.ready
         \/ restartStorm(cs)
         \/ cs.waiting # Nil

\* faulty variant: only the phases of an ended pod are refused
isPodReadyAndHealthy_PendingPasses(pod) ==
  IF pod.status.phase \in {"Succeeded", "Failed", "Unknown"} THEN FALSE
  ELSE IF notReadyCondition(pod) THEN FALSE
  ELSE IF unhealthyContainer(pod) THEN FALSE
  ELSE TRUE

\* faulty variant: a Ready condition has to be reported
isPodReadyAndHealthy_NeedsReadyCondition(pod) ==
  IF pod.status.phase # "Running" THEN FALSE
  ELSE IF \A i \in 1..Len(pod.status.conditions) :
             pod.status.conditions[i] # [type |-> "Ready", status |-> "True"]
       THEN FALSE
  ELSE IF unhealthyContainer(pod) THEN FALSE
  ELSE TRUE

\* main.go:519-551
isPodReadyAndHealthy(pod) ==
  IF pod.status.phase # "Running" THEN FALSE
  ELSE IF notReadyCondition(pod) THEN FALSE
  ELSE IF unhealthyContainer(pod) THEN FALSE
  ELSE TRUE

RECURSIVE countFrom(_, _, _)
countFrom(pods, i, readyCount) ==
  IF i > Len(pods) THEN readyCount
  ELSE countFrom(pods, i + 1,
                 IF isPodReadyAndHealthy(pods[i]) THEN readyCount + 1 ELSE readyCount)

countReadyAndHealthyPods(pods) == countFrom(pods, 1, 0)

\* faulty variant: every waiting container counts
hasCrashLoopBackOff_AnyWaiting(pod) ==
  \E i \in 1..Len(pod.status.containerStatuses) :
     pod.status.containerStatuses[i].waiting # Nil

hasCrashLoopBackOff(pod) ==
  \E i \in 1..Len(pod.status.containerStatuses) :
     /\ pod.status.containerStatuses[i].waiting # Nil
     /\ pod.status.containerStatuses[i].waiting = "CrashLoopBackOff"

isErrorPod(pod) ==
  \/ pod.status.phase = "Failed"
  \/ pod.status.phase = "Unknown"
  \/ hasCrashLoopBackOff(pod)

RECURSIVE errorFrom(_, _, _)
errorFrom(pods, i, errorPods) ==
  IF i > Len(pods) THEN errorPods
  ELSE errorFrom(pods, i + 1,
                 IF isErrorPod(pods[i]) THEN Append(errorPods, pods[i]) ELSE errorPods)

findErrorPods(pods) == errorFrom(pods, 1, <<>>)

\* map keys of initialPodUIDs: the UIDs of the listed pods
SnapshotUIDs(podList) == { podList[i].uid : i \in 1..Len(podList) }

(***************************************************************************)
(* parseParams.  A configured parameter is [name, value]; the submitted    *)
(* parameters are a function from names to values; what git prints is       *)
(* [text, newline].                                                         *)
(***************************************************************************)
BranchPlaceholder == "$branch"

ParamNames == {"branch", "env"}
ParamValues == {BranchPlaceholder, "prod", "x$branch"}

\* env.Params: the lists of at most MaxParams configured parameters
EnvParams ==
  UNION { [1..n -> [name : ParamNames, value : ParamValues]] : n \in 0..MaxParams }

\* the output of git rev-parse --abbrev-ref HEAD
GitOutputs == [text : {"feature-x", "main"}, newline : {TRUE}]

NoOutput == [text |-> "", newline |-> FALSE]

EmptyMap == [n \in {} |-> ""]

\* params[name] = value
MapSet(m, name, value) ==
  [n \in (DOMAIN m) \cup {name} |-> IF n = name THEN value ELSE m[n]]

\* main.go:186-201: strings.TrimSpace drops the newline
getBranchName(out) == out.text

RECURSIVE parseFrom(_, _, _, _)
parseFrom(envParams, i, out, m) ==
  IF i > Len(envParams) THEN m
  ELSE parseFrom(envParams, i + 1, out,
                 MapSet(m, envParams[i].name,
                        IF envParams[i].value = BranchPlaceholder
                        THEN getBranchName(out)
                        ELSE envParams[i].value))

ReverseSeq(sq) == [i \in 1..Len(sq) |-> sq[Len(sq) + 1 - i]]

\* faulty variant: a name that is configured twice keeps its first value
parseParams_FirstWins(envParams, out) ==
  parseFrom(ReverseSeq(envParams), 1, out, EmptyMap)

\* main.go:173-184
parseParams(envParams, out) == parseFrom(envParams, 1, out, EmptyMap)

\* getBranchName is called
NeedsBranch(envParams) ==
  \E i \in 1..Len(envParams) : envParams[i].value = BranchPlaceholder

(***************************************************************************)
(* The revision markers.  A revision is the string of the annotation       *)
(* deployment.kubernetes.io/revision, as the sequence of its digits.       *)
(***************************************************************************)
\* the revisions "9" and "10"
Revisions == { <<9>>, <<1, 0>> }

\* a > b on Go strings: bytewise, a proper prefix is smaller
StringGreater(a, b) ==
  \E i \in 1..Len(a) :
     /\ \A j \in 1..(i - 1) : j <= Len(b) /\ a[j] = b[j]
     /\ (i > Len(b) \/ a[i] > b[i])

\* main.go:470-486: the classification by revision, which no call uses
categorizePods(podList, initialRevision) ==
  [new |-> SelectSeq(podList, LAMBDA p : StringGreater(p.revision, initialRevision)),
   old |-> SelectSeq(podList, LAMBDA p : ~StringGreater(p.revision, initialRevision))]

\* faulty variant: the cycle classifies by revision
classifyPods_ByRevision(podList, initialRevision, initialPodUIDs) ==
  categorizePods(podList, initialRevision)

\* main.go:351 and 402: the classification a cycle makes
classifyPods(podList, initialRevision, initialPodUIDs) ==
  categorizePodsByUID(podList, initialPodUIDs)

(***************************************************************************)
(* The decisions of monitorPodRollout.                                     *)
(***************************************************************************)
\* faulty variant: one poll too many
RetriesExhausted_OffByOne(n) == n > maxRetries

\* main.go:331
RetriesExhausted(n) == n >= maxRetries

\* faulty variant: the old replicas are not looked at
RolloutComplete_IgnoresOld(ready, desired, oldCount) == ready = desired

\* main.go:390
RolloutComplete(ready, desired, oldCount) == ready = desired /\ oldCount = 0

\* main.go:405
StabilityConfirmed(ready, desired) == ready = desired

\* faulty variant: the grace period ends one cycle early
FailureCheckDue_GraceOffByOne(unavailable, n) == unavailable > 0 /\ n >= GracePeriod

\* main.go:418
FailureCheckDue(unavailable, n) == unavailable > 0 /\ n > GracePeriod

\* main.go:420-421
RolloutFailed(pods) == Len(findErrorPods(pods)) > 0

(***************************************************************************)
(* State.                                                                  *)
(***************************************************************************)
VARIABLES
  pc,                  \* position of main
  exitCode,            \* -1 while the process runs, then its exit status
  snapshotDone,        \* getCurrentDeploymentStatus has returned
  initialPodUIDs,      \* main.go:155, the identity snapshot
  configError,         \* "" or the configuration error main has found
  params,              \* main.go:131, from parseParams to job.InvokeSimple
  bpc,                 \* position of BuildJenkinsJob
  jobTriggered,        \* job.InvokeSimple has been called
  buildEnded,          \* build.IsRunning has returned false
  buildVerdict,        \* "none", "succeeded" or "failed"
  elapsed,             \* seconds since buildStartTime, saturating
  shouldShowLogs,      \* main.go:229
  lastLogLength,       \* main.go:228
  logs,                \* length of the console text fetched last
  streamed,            \* the characters printed by the streaming loop
  consoleDumped,       \* the full console was printed between the markers
  mpc,                 \* position of monitorPodRollout
  retries,             \* main.go:327
  deployment,          \* main.go:339, [replicas, unavailable], from Get to last read
  podList,             \* main.go:345/397
  newPods,             \* main.go:351/402
  oldPods,             \* main.go:351
  readyNewPods,        \* main.go:352/403
  rolloutVerdict,      \* "none", "converged", "failed" or "timed-out"
  monitorError,        \* "" or the fetch that made monitorPodRollout return
  holdClusterReplicas, \* Spec.Replicas in the cluster when the re-sample confirmed
  pollSampleComplete,  \* the poll sample of the cycle showed the rollout complete
  lastSampleComplete,  \* the latest sample of the cycle showed the rollout complete
  catStage,            \* categorizePodsByUID on its own: "off", "input", "done"
  catList,             \* its podList
  catSnapshot,         \* its initialPodUIDs
  catResult,           \* its result [new, old]
  evalStage,           \* the pod functions on their own: "off", "input", "done"
  evalPod,             \* their pod
  evalHealthy,         \* the result of isPodReadyAndHealthy
  evalErrors,          \* the result of findErrorPods on the pod alone
  parStage,            \* parseParams on its own: "off", "input", "done", "fatal"
  parEnv,              \* its env.Params
  parBranch,           \* what git prints for the branch
  parResult,           \* its result, the submitted parameters
  revStage,            \* two runs of a cycle side by side: "off", "input", ...
  revRun,              \* what the two runs are given
  revOutA,             \* what the run with the first revision markers does
  revOutB              \* what the run with the second revision markers does

mainVars == <<pc, exitCode, snapshotDone, initialPodUIDs, configError, params>>
buildVars == <<bpc, jobTriggered, buildEnded, buildVerdict, elapsed, shouldShowLogs,
               lastLogLength, logs, streamed, consoleDumped>>
loopLocals == <<podList, newPods, oldPods, readyNewPods>>
monitorVars == <<mpc, retries, deployment, podList, newPods, oldPods,
                 readyNewPods, rolloutVerdict, monitorError, holdClusterReplicas,
                 pollSampleComplete, lastSampleComplete>>
catVars == <<catStage, catList, catSnapshot, catResult>>
evalVars == <<evalStage, evalPod, evalHealthy, evalErrors>>
parVars == <<parStage, parEnv, parBranch, parResult>>
revVars == <<revStage, revRun, revOutA, revOutB>>
pureVars == <<catVars, evalVars, parVars, revVars>>
vars == <<pc, exitCode, snapshotDone, initialPodUIDs, configError, params, bpc,
          jobTriggered, buildEnded, buildVerdict, elapsed, shouldShowLogs,
          lastLogLength, logs, streamed, consoleDumped, mpc, retries, deployment,
          podList, newPods, oldPods,
          readyNewPods, rolloutVerdict, monitorError, holdClusterReplicas,
          pollSampleComplete, lastSampleComplete, catStage, catList, catSnapshot,
          catResult, evalStage, evalPod, evalHealthy, evalErrors, parStage, parEnv,
          parBranch, parResult, revStage, revRun, revOutA, revOutB>>

NoResample == 0 - 1

Deployments == [replicas : 0..MaxReplicas, unavailable : {0, 1}]

\* the value of deployment while no fetched deployment is to be read
NoDeployment == [replicas |-> 0, unavailable |-> 0]

\* faulty variant: the snapshot is taken when the monitor is about to start
MainOrder_SnapshotAfterBuild ==
  <<"startup", "parseParams", "jenkinsInit", "checkK8s", "build", "snapshot",
    "monitor">>

\* faulty variant: the target is checked when the build has returned
MainOrder_TargetCheckedAfterBuild ==
  <<"startup", "parseParams", "jenkinsInit", "snapshot", "build", "checkK8s",
    "monitor">>

\* main.go:78-170: the order of the steps of main
MainOrder ==
  <<"startup", "parseParams", "jenkinsInit", "checkK8s", "snapshot", "build",
    "monitor">>

StepAfter(step) ==
  LET i == CHOOSE k \in 1..Len(MainOrder) : MainOrder[k] = step
  IN  IF i = Len(MainOrder) THEN "exited" ELSE MainOrder[i + 1]

ProgramStart ==
  /\ exitCode = 0 - 1
  /\ snapshotDone = FALSE
  /\ initialPodUIDs = {}
  /\ configError = ""
  /\ params = EmptyMap
  /\ bpc = "idle"
  /\ jobTriggered = FALSE
  /\ buildEnded = FALSE
  /\ buildVerdict = "none"
  /\ elapsed = 0
  /\ shouldShowLogs = FALSE
  /\ lastLogLength = 0
  /\ logs = 0
  /\ streamed = <<>>
  /\ consoleDumped = FALSE
  /\ mpc = "idle"
  /\ retries = 0
  /\ deployment = NoDeployment
  /\ podList = <<>>
  /\ newPods = <<>>
  /\ oldPods = <<>>
  /\ readyNewPods = 0
  /\ rolloutVerdict = "none"
  /\ monitorError = ""
  /\ holdClusterReplicas = NoResample
  /\ pollSampleComplete = FALSE
  /\ lastSampleComplete = FALSE

\* categorizePodsByUID is not run on its own
CatOff ==
  /\ catStage = "off"
  /\ catList = <<>>
  /\ catSnapshot = {}
  /\ catResult = [new |-> <<>>, old |-> <<>>]

\* the pod functions are not run on their own
EvalOff ==
  /\ evalStage = "off"
  /\ evalPod = [uid |-> 0, status |-> HealthyStatus]
  /\ evalHealthy = FALSE
  /\ evalErrors = <<>>

\* parseParams is not run on its own
ParOff ==
  /\ parStage = "off"
  /\ parEnv = <<>>
  /\ parBranch = NoOutput
  /\ parResult = EmptyMap

\* the inputs and the outcome of a comparison not running
NoRun ==
  [snapshot |-> {}, deployment |-> NoDeployment, retries |-> 0, pods |-> <<>>,
   initialA |-> <<>>, initialB |-> <<>>]

NoOutcome == [decision |-> "none", ready |-> 0, new |-> {}, old |-> {}]

\* no two runs are compared
RevOff ==
  /\ revStage = "off"
  /\ revRun = NoRun
  /\ revOutA = NoOutcome
  /\ revOutB = NoOutcome

\* main.go:78, the process starts
Init ==
  /\ pc = MainOrder[1]
  /\ ProgramStart
  /\ CatOff
  /\ EvalOff
  /\ ParOff
  /\ RevOff

(***************************************************************************)
(* main.                                                                   *)
(***************************************************************************)
\* log.Fatalf: the process exits with status 1
Fatal == pc' = "exited" /\ exitCode' = 1

\* main.go:82 and 95: main returns, the process exits with status 0
EarlyReturn == pc' = "exited" /\ exitCode' = 0

\* main.go:89: os.Args[1] of a process started without an argument panics,
\* the process exits with status 2
Panic == pc' = "exited" /\ exitCode' = 2

\* the step is over: main goes on, or returns with status 0 after the last
Continue(step) ==
  /\ pc' = StepAfter(step)
  /\ exitCode' = IF StepAfter(step) = "exited" THEN 0 ELSE exitCode

\* main.go:79-127: working directory, environment argument, home directory,
\* configuration file, project and environment
Startup ==
  /\ pc = "startup"
  /\ \E outcome \in {"ok", "getwdErr", "noArgument", "homeDirErr", "loadConfigErr",
                     "noProject", "noEnv"} :
       CASE outcome = "ok" -> Continue("startup")
         [] outcome \in {"getwdErr", "homeDirErr"} -> EarlyReturn
         [] outcome = "noArgument" -> Panic
         [] OTHER -> Fatal
  /\ UNCHANGED <<snapshotDone, initialPodUIDs, configError, params,
                 buildVars,
                 monitorVars, pureVars>>

\* main.go:131 and 173-201: getBranchName runs for a "$branch" value and is
\* fatal when git fails
ParseParams ==
  /\ pc = "parseParams"
  /\ \E envParams \in EnvParams, out \in GitOutputs, gitOK \in BOOLEAN :
       IF NeedsBranch(envParams) /\ ~gitOK
       THEN Fatal /\ params' = params
       ELSE Continue("parseParams") /\ params' = parseParams(envParams, out)
  /\ UNCHANGED <<snapshotDone, initialPodUIDs, configError, buildVars, monitorVars,
                 pureVars>>

\* main.go:133-140
JenkinsInit ==
  /\ pc = "jenkinsInit"
  /\ \E ok \in BOOLEAN : IF ok THEN Continue("jenkinsInit") ELSE Fatal
  /\ UNCHANGED <<snapshotDone, initialPodUIDs, configError, params,
                 buildVars,
                 monitorVars, pureVars>>

\* main.go:148-152
CheckK8sConfig ==
  /\ pc = "checkK8s"
  /\ \E namespace \in {"", "ns"}, name \in {"", "app"} :
       IF namespace = "" \/ name = ""
       THEN Fatal /\ configError' = "incomplete"
       ELSE Continue("checkK8s") /\ configError' = configError
  /\ UNCHANGED <<snapshotDone, initialPodUIDs, params, buildVars, monitorVars,
                 pureVars>>

\* main.go:155-159 and 609-671
GetCurrentDeploymentStatus ==
  /\ pc = "snapshot"
  /\ \E outcome \in {"ok", "configErr", "getErr", "noRevision", "noSelector", "listErr"} :
       IF outcome = "ok"
       THEN \E initialPodList \in ClusterPodLists(jobTriggered) :
              /\ initialPodUIDs' = SnapshotUIDs(initialPodList)
              /\ snapshotDone' = TRUE
              /\ configError' = configError
              /\ Continue("snapshot")
       ELSE /\ Fatal
            /\ configError' = IF outcome \in {"noRevision", "noSelector"}
                              THEN outcome ELSE configError
            /\ UNCHANGED <<snapshotDone, initialPodUIDs>>
  /\ UNCHANGED <<params, buildVars, monitorVars, pureVars>>

(***************************************************************************)
(* BuildJenkinsJob.                                                        *)
(***************************************************************************)
\* main.go:204-213
BuildGetJob ==
  /\ pc = "build" /\ bpc = "idle"
  /\ \E ok \in BOOLEAN :
       IF ok THEN bpc' = "invoke" /\ UNCHANGED <<pc, exitCode>>
       ELSE Fatal /\ bpc' = bpc
  /\ UNCHANGED <<snapshotDone, initialPodUIDs, configError, params,
                 jobTriggered, buildEnded, buildVerdict,
                 elapsed, shouldShowLogs, lastLogLength, logs, streamed,
                 consoleDumped, monitorVars, pureVars>>

\* main.go:215-220: the trigger; params is not read after it
BuildInvoke ==
  /\ pc = "build" /\ bpc = "invoke"
  /\ \E ok \in BOOLEAN :
       IF ok THEN /\ jobTriggered' = TRUE
                  /\ params' = EmptyMap
                  /\ bpc' = "getBuild"
                  /\ UNCHANGED <<pc, exitCode>>
       ELSE Fatal /\ UNCHANGED <<bpc, jobTriggered, params>>
  /\ UNCHANGED <<snapshotDone, initialPodUIDs, configError, buildEnded, buildVerdict,
                 elapsed, shouldShowLogs, lastLogLength, logs, streamed, consoleDumped,
                 monitorVars, pureVars>>

\* main.go:222-229
BuildGetBuild ==
  /\ pc = "build" /\ bpc = "getBuild"
  /\ \E ok \in BOOLEAN :
       IF ok THEN /\ bpc' = "loop"
                  /\ elapsed' = 0
                  /\ lastLogLength' = 0
                  /\ shouldShowLogs' = FALSE
                  /\ UNCHANGED <<pc, exitCode>>
       ELSE Fatal /\ UNCHANGED <<bpc, elapsed, lastLogLength, shouldShowLogs>>
  /\ UNCHANGED <<snapshotDone, initialPodUIDs, configError, params,
                 jobTriggered, buildEnded, buildVerdict,
                 logs, streamed, consoleDumped, monitorVars, pureVars>>

Min(a, b) == IF a < b THEN a ELSE b

\* faulty variant: streaming starts at the threshold
LogThresholdPassed_Inclusive(seconds) == seconds >= LogThresholdSeconds

\* main.go:240
LogThresholdPassed(seconds) == seconds > LogThresholdSeconds

\* main.go:232-254, one iteration: IsRunning was true
BuildPoll ==
  /\ pc = "build" /\ bpc = "loop"
  /\ \E pollOK \in BOOLEAN :
       IF ~pollOK
       THEN /\ Fatal
            /\ UNCHANGED <<elapsed, shouldShowLogs, lastLogLength, logs, streamed>>
       ELSE \E dt \in 0..MaxTick, fetched \in logs..MaxLog :
              LET now == Min(elapsed + dt, LogThresholdSeconds + 1)
                  show == shouldShowLogs \/ LogThresholdPassed(now)
              IN  /\ elapsed' = now
                  /\ shouldShowLogs' = show
                  /\ IF show
                     THEN /\ logs' = fetched
                          /\ IF fetched > lastLogLength
                             THEN /\ streamed' = streamed \o
                                       [i \in 1..(fetched - lastLogLength) |->
                                           lastLogLength + i]
                                  /\ lastLogLength' = fetched
                             ELSE UNCHANGED <<streamed, lastLogLength>>
                     ELSE UNCHANGED <<logs, streamed, lastLogLength>>
                  /\ UNCHANGED <<pc, exitCode>>
  /\ UNCHANGED <<snapshotDone, initialPodUIDs, configError, params,
                 bpc, jobTriggered, buildEnded,
                 buildVerdict, consoleDumped, monitorVars, pureVars>>

\* faulty variant: the loop gives up whether the job still runs or not
BuildFinished_GivesUp ==
  /\ pc = "build" /\ bpc = "loop"
  /\ bpc' = "classify"
  /\ UNCHANGED <<mainVars, jobTriggered, buildEnded, buildVerdict, elapsed,
                 shouldShowLogs, lastLogLength, logs, streamed, consoleDumped,
                 monitorVars, pureVars>>

\* main.go:232: IsRunning is false, the loop ends
BuildFinished ==
  /\ pc = "build" /\ bpc = "loop"
  /\ bpc' = "classify"
  /\ buildEnded' = TRUE
  /\ UNCHANGED <<mainVars, jobTriggered, buildVerdict, elapsed, shouldShowLogs,
                 lastLogLength, logs, streamed, consoleDumped, monitorVars, pureVars>>

\* main.go:256-262 and 161-165: BuildJenkinsJob returns true and main goes on
BuildSucceeded ==
  /\ buildVerdict' = "succeeded"
  /\ bpc' = "returned"
  /\ Continue("build")
  /\ elapsed' = 0
  /\ shouldShowLogs' = FALSE
  /\ lastLogLength' = 0
  /\ logs' = 0
  /\ streamed' = <<>>
  /\ UNCHANGED consoleDumped

\* faulty variant: the failure is printed and returned, and main goes on
BuildFailed_Returns ==
  /\ buildVerdict' = "failed"
  /\ consoleDumped' = TRUE
  /\ bpc' = "returned"
  /\ Continue("build")
  /\ UNCHANGED <<elapsed, shouldShowLogs, lastLogLength, logs, streamed>>

\* main.go:263-271: the console is dumped and log.Fatalf ends the process
BuildFailed ==
  /\ buildVerdict' = "failed"
  /\ consoleDumped' = TRUE
  /\ Fatal
  /\ UNCHANGED <<bpc, elapsed, shouldShowLogs, lastLogLength, logs, streamed>>

\* main.go:256
BuildClassify ==
  /\ pc = "build" /\ bpc = "classify"
  /\ \E good \in BOOLEAN : IF good THEN BuildSucceeded ELSE BuildFailed
  /\ UNCHANGED <<snapshotDone, initialPodUIDs, configError, params,
                 jobTriggered, buildEnded, monitorVars,
                 pureVars>>

(***************************************************************************)
(* monitorPodRollout.                                                      *)
(***************************************************************************)
\* faulty variant: the failed fetch is logged and the loop polls again
MonitorReturnsError_Retried(why) ==
  /\ mpc' = "watching"
  /\ monitorError' = why
  /\ UNCHANGED <<pc, exitCode>>

\* return of an error to main.go:168-170, which is fatal
MonitorReturnsError(why) ==
  /\ mpc' = "returned"
  /\ monitorError' = why
  /\ Fatal

\* main.go:275-327: the client and the first Get of the deployment, whose
\* result is never read
MonitorSetup ==
  /\ pc = "monitor" /\ mpc = "idle"
  /\ \E outcome \in {"ok", "configErr", "getErr"} :
       IF outcome = "ok"
       THEN /\ deployment' = NoDeployment
            /\ retries' = 0
            /\ mpc' = "watching"
            /\ UNCHANGED <<pc, exitCode, monitorError>>
       ELSE /\ MonitorReturnsError(outcome)
            /\ UNCHANGED <<deployment, retries>>
  /\ UNCHANGED <<snapshotDone, initialPodUIDs, configError, params,
                 buildVars, loopLocals, rolloutVerdict,
                 holdClusterReplicas, pollSampleComplete, lastSampleComplete,
                 pureVars>>

\* faulty variant: the timeout is reported and the loop goes on
MonitorTimeout_KeepsPolling ==
  /\ pc = "monitor" /\ mpc = "watching"
  /\ RetriesExhausted(retries)
  /\ rolloutVerdict' = "timed-out"
  /\ UNCHANGED <<mainVars, buildVars, mpc, retries, deployment, loopLocals,
                 monitorError, holdClusterReplicas, pollSampleComplete,
                 lastSampleComplete, pureVars>>

\* main.go:331-333
MonitorTimeout ==
  /\ pc = "monitor" /\ mpc = "watching"
  /\ RetriesExhausted(retries)
  /\ rolloutVerdict' = "timed-out"
  /\ mpc' = "returned"
  /\ Fatal
  /\ UNCHANGED <<snapshotDone, initialPodUIDs, configError, params,
                 buildVars, retries, deployment,
                 loopLocals, monitorError, holdClusterReplicas, pollSampleComplete,
                 lastSampleComplete, pureVars>>

\* faulty variant: the snapshot is taken again from the pods of the cycle
SnapshotKept_Rederived == initialPodUIDs' = SnapshotUIDs(podList')

\* main.go:351 and 402: initialPodUIDs is read by a cycle, never assigned
SnapshotKept == initialPodUIDs' = initialPodUIDs

\* The sample shows the rollout complete: exactly desired new replicas are
\* healthy and no replica of the snapshot is listed.
SampleComplete(list, snapshot, desired) ==
  /\ Cardinality({i \in 1..Len(list) :
                    list[i].uid \notin snapshot /\ isPodReadyAndHealthy(list[i])})
       = desired
  /\ \A i \in 1..Len(list) : list[i].uid \notin snapshot

\* faulty variant: the failure check runs before the completion check
PollDecision_FailureFirst(complete, failed) ==
  IF failed THEN "failed" ELSE IF complete THEN "hold" ELSE "continue"

\* main.go:389-432: what a poll does with its sample
PollDecision(complete, failed) ==
  IF complete THEN "hold" ELSE IF failed THEN "failed" ELSE "continue"

\* main.go:405-432: what the cycle does with the re-sample
HoldDecision(confirmed, failed) ==
  IF confirmed THEN "converged" ELSE IF failed THEN "failed" ELSE "continue"

\* main.go:421-431 and 168-170: the monitor returns the failure
CycleFailed(d, list, pods, old, ready, pollComplete) ==
  /\ deployment' = d
  /\ rolloutVerdict' = "failed"
  /\ mpc' = "returned"
  /\ Fatal
  /\ podList' = list
  /\ newPods' = pods
  /\ oldPods' = old
  /\ readyNewPods' = ready
  /\ pollSampleComplete' = pollComplete

\* main.go:433: the loop continues and the locals of its body go out of
\* scope; deployment is fetched again at main.go:339 before it is read
CycleContinues ==
  /\ mpc' = "watching"
  /\ deployment' = NoDeployment
  /\ podList' = <<>>
  /\ newPods' = <<>>
  /\ oldPods' = <<>>
  /\ readyNewPods' = 0
  /\ pollSampleComplete' = FALSE
  /\ UNCHANGED <<pc, exitCode, rolloutVerdict>>

\* main.go:405-410 and 168-171: the monitor returns nil and main ends
RolloutConverged(list, pods, ready) ==
  /\ rolloutVerdict' = "converged"
  /\ mpc' = "returned"
  /\ Continue("monitor")
  /\ podList' = list
  /\ newPods' = pods
  /\ readyNewPods' = ready
  /\ UNCHANGED <<deployment, oldPods, pollSampleComplete>>

\* main.go:335-394 and 417-433: one poll.  podList and newPods are assigned
\* again at main.go:397 and 402 before they are read, so the hold keeps
\* readyNewPods and oldPods only.
MonitorPoll ==
  /\ pc = "monitor" /\ mpc = "watching"
  /\ ~RetriesExhausted(retries)
  /\ retries' = retries + 1
  /\ \E outcome \in {"ok", "getErr", "noSelector", "listErr"} :
       IF outcome = "getErr"
       THEN /\ MonitorReturnsError(outcome)
            /\ UNCHANGED <<deployment, loopLocals, rolloutVerdict,
                           pollSampleComplete, lastSampleComplete>>
       ELSE \E d \in Deployments :
              /\ IF outcome # "ok"
                 THEN /\ MonitorReturnsError(outcome)
                      /\ deployment' = d
                      /\ UNCHANGED <<loopLocals, rolloutVerdict, pollSampleComplete,
                                     lastSampleComplete>>
                 ELSE \E list \in ClusterPodLists(jobTriggered) :
                        LET cat == categorizePodsByUID(list, initialPodUIDs)
                            ready == countReadyAndHealthyPods(cat.new)
                            complete == SampleComplete(list, initialPodUIDs, d.replicas)
                            decision ==
                              PollDecision(
                                RolloutComplete(ready, d.replicas, Len(cat.old)),
                                FailureCheckDue(d.unavailable, retries')
                                  /\ RolloutFailed(cat.new))
                        IN  /\ monitorError' = monitorError
                            /\ lastSampleComplete' = complete
                            /\ CASE decision = "hold" ->
                                      /\ mpc' = "hold"
                                      /\ deployment' = d
                                      /\ podList' = <<>>
                                      /\ newPods' = <<>>
                                      /\ oldPods' = cat.old
                                      /\ readyNewPods' = ready
                                      /\ pollSampleComplete' = complete
                                      /\ UNCHANGED <<pc, exitCode, rolloutVerdict>>
                                 [] decision = "failed" ->
                                      CycleFailed(d, list, cat.new, cat.old, ready, complete)
                                 [] OTHER -> CycleContinues
  /\ holdClusterReplicas' = NoResample
  /\ SnapshotKept
  /\ UNCHANGED <<snapshotDone, configError, params, buildVars, pureVars>>

\* main.go:394-433: the re-sample after the stability hold, and the rest of
\* the cycle when it does not confirm.  The deployment is not fetched again:
\* clusterReplicas is what the cluster holds at that moment.
MonitorHoldResample ==
  /\ pc = "monitor" /\ mpc = "hold"
  /\ \E outcome \in {"ok", "listErr"} :
       IF outcome # "ok"
       THEN /\ MonitorReturnsError("holdListErr")
            /\ lastSampleComplete' = FALSE
            /\ holdClusterReplicas' = NoResample
            /\ UNCHANGED <<deployment, loopLocals, rolloutVerdict,
                           pollSampleComplete>>
       ELSE \E list \in ClusterPodLists(jobTriggered) :
              LET cat == categorizePodsByUID(list, initialPodUIDs)
                  ready == countReadyAndHealthyPods(cat.new)
                  decision ==
                    HoldDecision(
                      StabilityConfirmed(ready, deployment.replicas),
                      FailureCheckDue(deployment.unavailable, retries)
                        /\ RolloutFailed(cat.new))
              IN  /\ monitorError' = monitorError
                  /\ lastSampleComplete' =
                       SampleComplete(list, initialPodUIDs, deployment.replicas)
                  /\ CASE decision = "converged" ->
                            /\ \E clusterReplicas \in 0..MaxReplicas :
                                 holdClusterReplicas' = clusterReplicas
                            /\ RolloutConverged(list, cat.new, ready)
                       [] decision = "failed" ->
                            /\ holdClusterReplicas' = NoResample
                            /\ CycleFailed(deployment, list, cat.new, oldPods,
                                           ready, pollSampleComplete)
                       [] OTHER ->
                            /\ holdClusterReplicas' = NoResample
                            /\ CycleContinues
  /\ SnapshotKept
  /\ UNCHANGED <<snapshotDone, configError, params, buildVars, retries, pureVars>>

MonitorNext ==
  \/ MonitorSetup
  \/ MonitorTimeout
  \/ MonitorPoll
  \/ MonitorHoldResample

Next ==
  \/ Startup
  \/ ParseParams
  \/ JenkinsInit
  \/ CheckK8sConfig
  \/ GetCurrentDeploymentStatus
  \/ BuildGetJob
  \/ BuildInvoke
  \/ BuildGetBuild
  \/ BuildPoll
  \/ BuildFinished
  \/ BuildClassify
  \/ MonitorSetup
  \/ MonitorTimeout
  \/ MonitorPoll
  \/ MonitorHoldResample

Spec == Init /\ [][Next]_vars

\* BuildJenkinsJob is one thread: once IsRunning has returned false, IsGood
\* is called and a branch of main.go:256-272 runs.
BuildLiveSpec == Spec /\ WF_vars(BuildClassify)

\* The monitor is one thread that sleeps and polls: a step that can be
\* taken is taken.
LiveSpec == Spec /\ WF_vars(MonitorNext)

(***************************************************************************)
(* categorizePodsByUID on its own inputs.                                  *)
(***************************************************************************)
\* the sequences over S without repetition, of every order
RECURSIVE Arrangements(_)
Arrangements(S) ==
  IF S = {} THEN {<<>>}
  ELSE UNION { { <<x>> \o t : t \in Arrangements(S \ {x}) } : x \in S }

AnyOrderPodLists ==
  UNION { UNION { { [i \in 1..Len(order) |->
                      [uid |-> order[i], status |-> f[order[i]]]] :
                    f \in [S -> MonitorStatuses] } :
                  order \in Arrangements(S) } :
          S \in {T \in SUBSET AllUIDs : Cardinality(T) <= MaxPods} }

CatInit ==
  /\ pc = "exited"
  /\ ProgramStart
  /\ catStage = "input"
  /\ catList \in AnyOrderPodLists
  /\ catSnapshot \in SUBSET AllUIDs
  /\ catResult = [new |-> <<>>, old |-> <<>>]
  /\ EvalOff
  /\ ParOff
  /\ RevOff

\* main.go:489-503
Categorize ==
  /\ catStage = "input"
  /\ catResult' = categorizePodsByUID(catList, catSnapshot)
  /\ catStage' = "done"
  /\ UNCHANGED <<mainVars, buildVars, monitorVars, catList, catSnapshot, evalVars,
                 parVars, revVars>>

CatNext == Categorize

CatSpec == CatInit /\ [][CatNext]_vars

(***************************************************************************)
(* isPodReadyAndHealthy and findErrorPods on their own inputs.             *)
(***************************************************************************)
PodInit ==
  /\ pc = "exited"
  /\ ProgramStart
  /\ CatOff
  /\ ParOff
  /\ RevOff
  /\ evalStage = "input"
  /\ evalPod \in EvalPods
  /\ evalHealthy = FALSE
  /\ evalErrors = <<>>

\* main.go:519-551
EvaluateHealth ==
  /\ evalStage = "input"
  /\ evalHealthy' = isPodReadyAndHealthy(evalPod)
  /\ evalStage' = "evaluated"
  /\ UNCHANGED <<mainVars, buildVars, monitorVars, catVars, evalPod, evalErrors,
                 parVars, revVars>>

\* main.go:565-577
FindErrors ==
  /\ evalStage = "evaluated"
  /\ evalErrors' = findErrorPods(<<evalPod>>)
  /\ evalStage' = "done"
  /\ UNCHANGED <<mainVars, buildVars, monitorVars, catVars, evalPod, evalHealthy,
                 parVars, revVars>>

PodNext == EvaluateHealth \/ FindErrors

PodSpec == PodInit /\ [][PodNext]_vars

(***************************************************************************)
(* parseParams on its own inputs.                                          *)
(***************************************************************************)
ParInit ==
  /\ pc = "exited"
  /\ ProgramStart
  /\ CatOff
  /\ EvalOff
  /\ RevOff
  /\ parStage = "input"
  /\ parEnv \in EnvParams
  /\ parBranch \in GitOutputs
  /\ parResult = EmptyMap

\* main.go:173-201: log.Fatalf in getBranchName when git fails
RunParseParams ==
  /\ parStage = "input"
  /\ \E gitOK \in BOOLEAN :
       IF NeedsBranch(parEnv) /\ ~gitOK
       THEN parStage' = "fatal" /\ parResult' = parResult
       ELSE parStage' = "done" /\ parResult' = parseParams(parEnv, parBranch)
  /\ UNCHANGED <<mainVars, buildVars, monitorVars, catVars, evalVars, parEnv,
                 parBranch, revVars>>

ParNext == RunParseParams

ParSpec == ParInit /\ [][ParNext]_vars

(***************************************************************************)
(* One cycle of monitorPodRollout run twice, on the same snapshot and the  *)
(* same observations, with different revision markers.                     *)
(***************************************************************************)
\* an identity of the snapshot and one created by the rollout
RevUIDs == {1, NumPre + 1}

\* the observed pods: each carries the revision annotation it has in the
\* first run and the one it has in the second
RevPodLists ==
  UNION { { [i \in 1..Cardinality(S) |->
               [uid |-> SortedSeq(S)[i], status |-> f[SortedSeq(S)[i]].status,
                revisionA |-> f[SortedSeq(S)[i]].a,
                revisionB |-> f[SortedSeq(S)[i]].b]] :
            f \in [S -> [status : MonitorStatuses, a : Revisions, b : Revisions]] } :
          S \in SUBSET RevUIDs }

\* retries on both sides of the grace period
RevRuns ==
  [snapshot : SUBSET (RevUIDs \cap PreUIDs), deployment : Deployments,
   retries : {GracePeriod, GracePeriod + 1}, pods : RevPodLists,
   initialA : Revisions, initialB : Revisions]

\* the pod list as the first and as the second run get it
ListA(run) ==
  [i \in 1..Len(run.pods) |->
     [uid |-> run.pods[i].uid, status |-> run.pods[i].status,
      revision |-> run.pods[i].revisionA]]

ListB(run) ==
  [i \in 1..Len(run.pods) |->
     [uid |-> run.pods[i].uid, status |-> run.pods[i].status,
      revision |-> run.pods[i].revisionB]]

\* main.go:351-432: what a cycle does with its poll sample after n retries
PollOutcome(initialRevision, snapshot, d, list, n) ==
  LET cat == classifyPods(list, initialRevision, snapshot)
      ready == countReadyAndHealthyPods(cat.new)
  IN  [decision |->
         PollDecision(RolloutComplete(ready, d.replicas, Len(cat.old)),
                      FailureCheckDue(d.unavailable, n) /\ RolloutFailed(cat.new)),
       ready |-> ready,
       new |-> SnapshotUIDs(cat.new),
       old |-> SnapshotUIDs(cat.old)]

\* main.go:397-432: what a cycle does with its re-sample
HoldOutcome(initialRevision, snapshot, d, list, n) ==
  LET cat == classifyPods(list, initialRevision, snapshot)
      ready == countReadyAndHealthyPods(cat.new)
  IN  [decision |->
         HoldDecision(StabilityConfirmed(ready, d.replicas),
                      FailureCheckDue(d.unavailable, n) /\ RolloutFailed(cat.new)),
       ready |-> ready,
       new |-> SnapshotUIDs(cat.new),
       old |-> SnapshotUIDs(cat.old)]

RevInit ==
  /\ pc = "exited"
  /\ ProgramStart
  /\ CatOff
  /\ EvalOff
  /\ ParOff
  /\ revStage = "input"
  /\ revRun \in RevRuns
  /\ revOutA = NoOutcome
  /\ revOutB = NoOutcome

\* both runs take the list as their poll sample
PollBoth ==
  /\ revStage = "input"
  /\ revOutA' = PollOutcome(revRun.initialA, revRun.snapshot, revRun.deployment,
                            ListA(revRun), revRun.retries)
  /\ revOutB' = PollOutcome(revRun.initialB, revRun.snapshot, revRun.deployment,
                            ListB(revRun), revRun.retries)
  /\ revStage' = "polled"
  /\ UNCHANGED <<mainVars, buildVars, monitorVars, catVars, evalVars, parVars,
                 revRun>>

\* both runs take the list as their re-sample
ResampleBoth ==
  /\ revStage = "polled"
  /\ revOutA' = HoldOutcome(revRun.initialA, revRun.snapshot, revRun.deployment,
                            ListA(revRun), revRun.retries)
  /\ revOutB' = HoldOutcome(revRun.initialB, revRun.snapshot, revRun.deployment,
                            ListB(revRun), revRun.retries)
  /\ revStage' = "resampled"
  /\ UNCHANGED <<mainVars, buildVars, monitorVars, catVars, evalVars, parVars,
                 revRun>>

RevNext == PollBoth \/ ResampleBoth

RevSpec == RevInit /\ [][RevNext]_vars

(***************************************************************************)
(* Properties.                                                             *)
(***************************************************************************)
Verdicts == {"converged", "failed", "timed-out"}

Range(seq) == { seq[i] : i \in 1..Len(seq) }

\* C1: the monitor returns converged only if the re-sample taken after the
\* hold shows the rollout complete again: exactly the desired number of
\* healthy new replicas and no replica of the snapshot.
C1_ResampleSameCondition ==
  rolloutVerdict = "converged" =>
    SampleComplete(podList, initialPodUIDs, deployment.replicas)

\* C2: the hold is entered, and converged returned, only in a cycle whose own
\* poll sample has readyNew = desired and no old replica at the same time.
C2_HoldOnlyOnCompleteSample ==
  (mpc = "hold" \/ rolloutVerdict = "converged") =>
    /\ pollSampleComplete
    /\ Len(oldPods) = 0
    /\ (mpc = "hold" => readyNewPods = deployment.replicas)

C2_Witness ==
  /\ rolloutVerdict = "converged"
  /\ pollSampleComplete
  /\ initialPodUIDs # {}
  /\ deployment.replicas > 0

\* C3: a cycle whose sample shows the rollout complete, at any retry count
\* and whatever the unavailable count and the errored replicas, goes to the
\* hold, and returns converged when the re-sample shows it complete again:
\* it never ends in failed, in a timeout or in another poll.
C3_CompleteSampleConverges ==
  (lastSampleComplete /\ mpc # "hold") => rolloutVerdict = "converged"

C3_Witness ==
  /\ rolloutVerdict = "converged"
  /\ lastSampleComplete
  /\ retries = maxRetries
  /\ deployment.unavailable > 0
  /\ RolloutFailed(newPods)

\* what the monitor has left to do: two steps for each poll not yet made
MonitorRank ==
  2 * (maxRetries - retries)
    + (IF mpc = "watching" THEN 1 ELSE IF mpc = "hold" THEN 2 ELSE 0)

\* C4: the monitor terminates: the retry counter grows by one in every poll
\* and in nothing else and never exceeds maxRetries, every step of the
\* monitor brings the return nearer and a step is always possible until it
\* returns, and a monitor that returns without converged, failed or a fetch
\* error has timed out after maxRetries polls.
C4_MonitorTerminates ==
  /\ [](retries \in 0..maxRetries)
  /\ [](rolloutVerdict = "timed-out" => retries = maxRetries)
  /\ []((mpc = "returned" /\ monitorError = ""
           /\ rolloutVerdict \notin {"converged", "failed"})
          => (rolloutVerdict = "timed-out" /\ retries = maxRetries))
  /\ [][/\ (retries' # retries => (retries' = retries + 1 /\ mpc = "watching"))
        /\ ((mpc = "watching" /\ rolloutVerdict' # "timed-out")
              => retries' = retries + 1)]_vars
  /\ [][(mpc \in {"watching", "hold"})
          => (MonitorRank' < MonitorRank /\ MonitorRank' >= 0)]_vars
  /\ [](mpc \in {"watching", "hold"} => ENABLED MonitorNext)

\* C4, as a liveness property under LiveSpec: a monitor that has started
\* polling returns.
C4_MonitorReturns == (mpc = "watching") ~> (mpc = "returned")

C4_Witness ==
  /\ mpc = "returned"
  /\ rolloutVerdict = "timed-out"
  /\ retries = maxRetries

\* C5: the monitor runs only after the build was seen not running and was
\* classified successful; a failed build dumps the console and ends the
\* process without the monitor ever being called.
C5_MonitorsSequential ==
  /\ (mpc # "idle" =>
        (buildEnded /\ buildVerdict = "succeeded" /\ bpc = "returned"))
  /\ (buildVerdict # "none" => buildEnded)
  /\ (buildVerdict = "failed" =>
        (consoleDumped /\ mpc = "idle" /\ retries = 0
           /\ pc = "exited" /\ exitCode = 1))

C5_Witness ==
  /\ buildVerdict = "failed"
  /\ consoleDumped
  /\ mpc = "idle"
  /\ pc = "exited"

\* C6: when the job is triggered the snapshot has been taken, so no identity
\* that first exists after the trigger is in it, and every listed replica
\* with such an identity is among the new ones.
C6_SnapshotBeforeTrigger ==
  /\ (jobTriggered => snapshotDone)
  /\ initialPodUIDs \cap PostUIDs = {}
  /\ \A i \in 1..Len(podList) :
       podList[i].uid \in PostUIDs => podList[i] \in Range(newPods)

C6_Witness ==
  /\ mpc = "returned"
  /\ initialPodUIDs # {}
  /\ \E i \in 1..Len(podList) :
       podList[i].uid \in PostUIDs /\ podList[i] \in Range(newPods)
  /\ \E i \in 1..Len(podList) : podList[i].uid \in initialPodUIDs

\* the lists with the pods of list in another order
Reorderings(list) ==
  { [i \in 1..Len(list) |-> list[pi[i]]] : pi \in Permutations(1..Len(list)) }

\* C7: categorizePodsByUID puts every listed replica in exactly one of new and
\* old, in old exactly when its identity is in the snapshot, and the two sets
\* are the same for every order of the list.
C7_CategorizeIsPartition ==
  catStage = "done" =>
    /\ Range(catResult.new) \cup Range(catResult.old) = Range(catList)
    /\ Range(catResult.new) \cap Range(catResult.old) = {}
    /\ Len(catResult.new) + Len(catResult.old) = Len(catList)
    /\ \A p \in Range(catList) :
         /\ p \in Range(catResult.old) <=> p.uid \in catSnapshot
         /\ p \in Range(catResult.new) <=> p.uid \notin catSnapshot
    /\ \A other \in Reorderings(catList) :
         /\ Range(categorizePodsByUID(other, catSnapshot).new) = Range(catResult.new)
         /\ Range(categorizePodsByUID(other, catSnapshot).old) = Range(catResult.old)

C7_Witness ==
  /\ catStage = "done"
  /\ Len(catList) = MaxPods
  /\ Len(catResult.new) > 0
  /\ Len(catResult.old) > 0
  /\ catList[1].uid > catList[2].uid

\* C8: failed is returned only after the grace period, with unavailable
\* replicas, and with an errored replica that is not in the snapshot.
C8_FailedOnlyAfterGrace ==
  rolloutVerdict = "failed" =>
    /\ retries > GracePeriod
    /\ deployment.unavailable > 0
    /\ \E i \in 1..Len(podList) :
         podList[i].uid \notin initialPodUIDs /\ isErrorPod(podList[i])

C8_Witness ==
  /\ rolloutVerdict = "failed"
  /\ retries = GracePeriod + 1
  /\ \E i \in 1..Len(podList) :
       podList[i].uid \in initialPodUIDs /\ isErrorPod(podList[i])

\* C9: the comparison made on the re-sample uses the desired count the
\* cluster holds when the re-sample is taken.
C9_DesiredRereadOnResample ==
  rolloutVerdict = "converged" => readyNewPods = holdClusterReplicas

\* C10 as stated: every return of the monitor carries a verdict.
C10_AlwaysAVerdict ==
  mpc = "returned" => rolloutVerdict \in Verdicts

\* C10: a monitor that returns without a failed fetch carries exactly one
\* verdict, one that returns on a failed fetch carries none, there is no
\* verdict before the return, and nothing changes after it.
C10_VerdictUnlessFetchError ==
  /\ [](mpc = "returned" => (monitorError = "" <=> rolloutVerdict \in Verdicts))
  /\ [](mpc # "returned" => (rolloutVerdict = "none" /\ monitorError = ""))
  /\ [](rolloutVerdict \in Verdicts \cup {"none"})
  /\ [][mpc = "returned" =>
          UNCHANGED <<mpc, rolloutVerdict, monitorError, retries, deployment,
                      loopLocals>>]_vars

C10_Witness ==
  /\ mpc = "returned"
  /\ rolloutVerdict = "timed-out"
  /\ monitorError = ""
  /\ exitCode = 1

\* C11: a failed fetch of the monitor (the Get of the workload, the list of
\* its replicas, the list of the re-sample) ends the invocation in the step
\* in which it fails: the monitor has returned without a verdict, the process
\* has exited with status 1, and no poll, verdict or retry follows.
C11_FetchErrorEndsMonitor ==
  /\ [](monitorError # "" =>
         (mpc = "returned" /\ rolloutVerdict = "none" /\ pc = "exited"
            /\ exitCode = 1))
  /\ [][monitorError' # monitorError =>
          (monitorError = "" /\ mpc' = "returned" /\ pc' = "exited")]_vars
  /\ [][monitorError # "" =>
          (retries' = retries /\ mpc' = mpc /\ rolloutVerdict' = rolloutVerdict)]_vars

C11_Witness ==
  /\ monitorError = "holdListErr"
  /\ mpc = "returned"
  /\ pollSampleComplete
  /\ retries \in 1..(maxRetries - 1)

\* C12 as stated: whenever a configuration error is found, the job has not
\* been triggered.
C12_ConfigErrorBeforeTrigger ==
  (configError # "" \/ monitorError = "noSelector") => ~jobTriggered

\* C12: a configuration error found by the checks main makes before the
\* build (namespace or deployment name missing, no revision, no selector
\* labels) ends the process with status 1 in the step that finds it, before
\* the job is triggered and without the build or the monitor being entered;
\* a triggered job means these checks have passed.  The selector labels are
\* checked again in every poll, where the error comes after the trigger.
C12_TargetErrorBeforeTrigger ==
  /\ [](configError # "" =>
         (~jobTriggered /\ bpc = "idle" /\ mpc = "idle" /\ pc = "exited"
            /\ exitCode = 1))
  /\ [](jobTriggered => (configError = "" /\ snapshotDone))
  /\ [][configError' # configError => (configError = "" /\ pc' = "exited")]_vars
  /\ [](monitorError = "noSelector" =>
         (jobTriggered /\ pc = "exited" /\ exitCode = 1))

C12_Witness ==
  /\ configError = "noSelector"
  /\ pc = "exited"
  /\ exitCode = 1
  /\ ~jobTriggered

\* C13: the process exits with status 0 exactly when the build succeeded and
\* the rollout converged; every other end of the invocation has a non-zero
\* status.
C13_ZeroIffSucceededConverged ==
  pc = "exited" =>
    (exitCode = 0 <=> (buildVerdict = "succeeded" /\ rolloutVerdict = "converged"))

\* isPodReadyAndHealthy has been applied to evalPod
Evaluated == evalStage \in {"evaluated", "done"}

\* the container has more than three restarts, a recorded last restart, and
\* that restart is less than 60 seconds old
InStorm(cs) ==
  /\ cs.restartCount > RestartThreshold
  /\ cs.lastTerminated
  /\ ~cs.finishedAtZero
  /\ cs.sinceFinished < RestartWindow

\* C14: a replica whose phase is not Running is unhealthy, whatever its
\* conditions and container statuses are.
C14_NotRunningIsUnhealthy ==
  (Evaluated /\ evalPod.status.phase # "Running") => ~evalHealthy

C14_Witness ==
  /\ Evaluated
  /\ evalPod.status.phase = "Pending"
  /\ evalPod.status.conditions = << [type |-> "Ready", status |-> "True"] >>
  /\ Len(evalPod.status.containerStatuses) = 1
  /\ evalPod.status.containerStatuses[1].ready
  /\ evalPod.status.containerStatuses[1].waiting = Nil
  /\ ~InStorm(evalPod.status.containerStatuses[1])
  /\ ~evalHealthy

\* the replica passes every rule but perhaps the restart-storm rule
PassesOtherRules(pod) ==
  /\ pod.status.phase = "Running"
  /\ \A i \in 1..Len(pod.status.conditions) :
       pod.status.conditions[i].type = "Ready"
         => pod.status.conditions[i].status = "True"
  /\ \A i \in 1..Len(pod.status.containerStatuses) :
       /\ pod.status.containerStatuses[i].ready
       /\ pod.status.containerStatuses[i].waiting = Nil

\* C15: a container with more than 3 restarts whose last restart is less than
\* 60 seconds old makes the replica unhealthy; more than 3 restarts with a
\* last restart of 60 seconds or more, or with none recorded, and 3 restarts
\* or fewer, do not: a replica that passes the other rules is then healthy.
C15_RestartStormRule ==
  Evaluated =>
    /\ (\E i \in 1..Len(evalPod.status.containerStatuses) :
          InStorm(evalPod.status.containerStatuses[i])) => ~evalHealthy
    /\ (PassesOtherRules(evalPod)
          /\ \A i \in 1..Len(evalPod.status.containerStatuses) :
               LET cs == evalPod.status.containerStatuses[i]
               IN  \/ cs.restartCount <= RestartThreshold
                   \/ ~cs.lastTerminated
                   \/ cs.finishedAtZero
                   \/ cs.sinceFinished >= RestartWindow) => evalHealthy

C15_Witness ==
  /\ Evaluated
  /\ evalHealthy
  /\ \E i \in 1..Len(evalPod.status.containerStatuses) :
       LET cs == evalPod.status.containerStatuses[i]
       IN  /\ cs.restartCount = RestartThreshold + 1
           /\ cs.lastTerminated /\ ~cs.finishedAtZero
           /\ cs.sinceFinished = 3600

\* C16: findErrorPods keeps a replica exactly when its phase is Failed or
\* Unknown or one of its containers is waiting with reason CrashLoopBackOff;
\* a pending replica and one waiting for another reason are not kept.
C16_ErroredIffFailedOrCrashLoop ==
  evalStage = "done" =>
    /\ evalErrors \in {<<>>, <<evalPod>>}
    /\ evalErrors = <<evalPod>>
         <=> \/ evalPod.status.phase \in {"Failed", "Unknown"}
             \/ \E i \in 1..Len(evalPod.status.containerStatuses) :
                  evalPod.status.containerStatuses[i].waiting = "CrashLoopBackOff"

C16_Witness ==
  /\ evalStage = "done"
  /\ evalErrors = <<>>
  /\ evalPod.status.phase = "Pending"
  /\ \E i \in 1..Len(evalPod.status.containerStatuses) :
       evalPod.status.containerStatuses[i].waiting = "ImagePullBackOff"

\* what is submitted for the configured value v
Submitted(v) == IF v = "$branch" THEN parBranch.text ELSE v

\* C17 as stated: the keys are the configured names and every configured
\* parameter is submitted, with the branch for "$branch" and unchanged
\* otherwise.
C17_EveryParamSubmitted ==
  parStage = "done" =>
    /\ DOMAIN parResult = { parEnv[i].name : i \in 1..Len(parEnv) }
    /\ \A i \in 1..Len(parEnv) :
         parResult[parEnv[i].name] = Submitted(parEnv[i].value)

\* C17: the keys are the configured names, and the value of a name is what
\* its last configured parameter asks for: the branch git printed, without
\* the newline, for exactly "$branch", the configured value unchanged
\* otherwise; no map is built when git fails.
C17_LastParamOfNameSubmitted ==
  /\ parStage = "done" =>
       /\ DOMAIN parResult = { parEnv[i].name : i \in 1..Len(parEnv) }
       /\ \A i \in 1..Len(parEnv) :
            (\A j \in (i + 1)..Len(parEnv) : parEnv[j].name # parEnv[i].name)
              => parResult[parEnv[i].name] = Submitted(parEnv[i].value)
  /\ parStage = "fatal" =>
       /\ parResult = EmptyMap
       /\ \E i \in 1..Len(parEnv) : parEnv[i].value = "$branch"

C17_Witness ==
  /\ parStage = "done"
  /\ parEnv = << [name |-> "branch", value |-> "$branch"],
                 [name |-> "env", value |-> "x$branch"] >>
  /\ parBranch.text = "feature-x"
  /\ parResult["branch"] = "feature-x"
  /\ parResult["env"] = "x$branch"

\* parseParams has returned: main is past it, or the map it built is held
ParamsResolved ==
  \/ pc \in {"jenkinsInit", "checkK8s", "snapshot", "build", "monitor"}
  \/ DOMAIN params # {}

\* C18: the identity snapshot is captured before the build parameters are
\* resolved and the branch is looked up.
C18_SnapshotBeforeParams ==
  ParamsResolved => snapshotDone

\* BuildJenkinsJob is in its loop or past it, with its locals alive
BuildLocalsAlive == bpc \in {"loop", "classify"}

\* C19: nothing is streamed while the time since buildStartTime (which is
\* not before the trigger) is at most 30 s; streaming, once on, stays on for
\* the rest of the build; the last-seen length never decreases; every cycle
\* prints exactly the console text past the last-seen length, so that what
\* was printed is the console prefix of that length, each character once.
C19_IncrementalLogStreaming ==
  /\ [](~shouldShowLogs => (streamed = <<>> /\ lastLogLength = 0))
  /\ [](shouldShowLogs => elapsed > LogThresholdSeconds)
  /\ [](streamed = [i \in 1..lastLogLength |-> i])
  /\ []((BuildLocalsAlive /\ shouldShowLogs) => lastLogLength = logs)
  /\ [][BuildLocalsAlive' =>
          /\ (shouldShowLogs => shouldShowLogs')
          /\ lastLogLength' >= lastLogLength
          /\ streamed' =
               streamed \o [i \in 1..(lastLogLength' - lastLogLength) |->
                              lastLogLength + i]]_vars

C19_Witness ==
  /\ bpc = "classify"
  /\ shouldShowLogs
  /\ Len(streamed) = MaxLog
  /\ lastLogLength = MaxLog

\* C20: isPodReadyAndHealthy returns true exactly when the phase is Running,
\* no Ready condition is reported with a status other than True, and every
\* container is ready, is not in a restart storm and is not waiting; so a
\* ready container that is waiting makes the replica unhealthy, and a
\* running replica without conditions and container statuses is healthy.
C20_HealthyIffNoRuleFails ==
  Evaluated =>
    (evalHealthy <=>
       /\ evalPod.status.phase = "Running"
       /\ ~ \E i \in 1..Len(evalPod.status.conditions) :
              /\ evalPod.status.conditions[i].type = "Ready"
              /\ evalPod.status.conditions[i].status \in {"False", "Unknown"}
       /\ \A i \in 1..Len(evalPod.status.containerStatuses) :
            /\ evalPod.status.containerStatuses[i].ready
            /\ ~InStorm(evalPod.status.containerStatuses[i])
            /\ evalPod.status.containerStatuses[i].waiting = Nil)

C20_Witness ==
  /\ Evaluated
  /\ evalHealthy
  /\ evalPod.status.phase = "Running"
  /\ evalPod.status.conditions = <<>>
  /\ evalPod.status.containerStatuses = <<>>

\* C21: a cycle whose poll sample sent it into the stability hold never ends
\* with the failed verdict: failed is only decided in a cycle that did not
\* hold, from the workload and the list of that cycle's poll.
C21_DipIsNotFailure ==
  rolloutVerdict = "failed" => ~pollSampleComplete

\* C22: the snapshot is assigned once, by getCurrentDeploymentStatus before
\* the job is triggered, and no later step changes it; the monitor starts
\* with it, and in every cycle, whatever the retry count, the old replicas
\* are the listed ones whose identity is in that set: none of them has an
\* identity created after the trigger.
C22_SnapshotImmutable ==
  /\ [][initialPodUIDs' # initialPodUIDs =>
          (pc = "snapshot" /\ ~snapshotDone /\ snapshotDone' /\ ~jobTriggered)]_vars
  /\ [][snapshotDone => (snapshotDone' /\ initialPodUIDs' = initialPodUIDs)]_vars
  /\ [](~snapshotDone => (initialPodUIDs = {} /\ mpc = "idle" /\ ~jobTriggered))
  /\ [](/\ \A p \in Range(oldPods) : p.uid \in initialPodUIDs /\ p.uid \notin PostUIDs
        /\ \A p \in Range(newPods) : p.uid \notin initialPodUIDs)

C22_Witness ==
  /\ rolloutVerdict = "failed"
  /\ retries = maxRetries
  /\ Len(oldPods) > 0
  /\ \E p \in Range(newPods) : p.uid \in PostUIDs


\* C23: two cycles given the same snapshot, the same deployment, the same
\* pods and the same number of retries, but different initial revision markers
\* and different revision annotations on the pods, classify the pods alike
\* (by membership in the snapshot alone), count the same ready new pods and
\* take the same decision, on the poll sample and on the re-sample.
C23_RevisionsDoNotMatter ==
  revStage \in {"polled", "resampled"} =>
    /\ revOutA = revOutB
    /\ revOutA.old = SnapshotUIDs(revRun.pods) \cap revRun.snapshot
    /\ revOutA.new = SnapshotUIDs(revRun.pods) \ revRun.snapshot

\* the two runs converge alike although the classification by revision would
\* separate them
C23_Witness ==
  /\ revStage = "resampled"
  /\ revRun.initialA # revRun.initialB
  /\ \E i \in 1..Len(revRun.pods) : revRun.pods[i].revisionA # revRun.pods[i].revisionB
  /\ revOutA.decision = "converged"
  /\ revOutB.decision = "converged"
  /\ revOutA.ready > 0
  /\ SnapshotUIDs(categorizePods(ListA(revRun), revRun.initialA).new)
       # SnapshotUIDs(categorizePods(ListB(revRun), revRun.initialB).new)


\* C24: BuildJenkinsJob has no retry budget and no timeout.  A verdict exists
\* only when the job has been observed not running.  While the loop runs,
\* whatever time has elapsed, a successful poll that stays in the loop can be
\* taken, and so can the observation that the job no longer runs.  When the
\* job has been observed not running, the classification can be taken and no
\* verdict exists yet; a verdict "succeeded" is the return of BuildJenkinsJob
\* and a verdict "failed" its fatal exit, so there is exactly one.  A process
\* that has exited in the loop, on a failed poll, has no verdict.
C24_BuildWaitsWithoutBudget ==
  /\ buildVerdict \in {"none", "succeeded", "failed"}
  /\ buildVerdict # "none" => buildEnded
  /\ (pc = "build" /\ bpc = "loop") =>
       /\ ~buildEnded
       /\ ENABLED (BuildPoll /\ pc' = "build")
       /\ ENABLED BuildFinished
  /\ (pc = "build" /\ bpc = "classify") =>
       /\ buildEnded
       /\ buildVerdict = "none"
       /\ ENABLED (BuildClassify /\ buildVerdict' = "succeeded")
       /\ ENABLED (BuildClassify /\ buildVerdict' = "failed")
  /\ buildVerdict = "succeeded" => bpc = "returned"
  /\ buildVerdict = "failed" => (bpc = "classify" /\ pc = "exited" /\ exitCode = 1)
  /\ bpc = "returned" => buildVerdict = "succeeded"
  /\ (pc = "exited" /\ bpc = "loop") =>
       (buildVerdict = "none" /\ ~buildEnded /\ exitCode = 1)

\* C24, as a liveness statement under BuildLiveSpec: a job observed not
\* running leads to a verdict.
C24_EndedBuildGetsVerdict ==
  (pc = "build" /\ bpc = "classify") ~> (buildVerdict # "none")

\* the loop is still polling past the log threshold with the whole log
\* streamed, and no verdict exists
C24_Witness ==
  /\ pc = "build"
  /\ bpc = "loop"
  /\ elapsed = LogThresholdSeconds + 1
  /\ shouldShowLogs
  /\ lastLogLength = MaxLog
  /\ buildVerdict = "none"


\* the pods of a sample next to the evaluated one: at most MaxPods - 1 on
\* each side, in the statuses of a rollout
CompanionLists ==
  UNION { [1..n -> { [uid |-> NumPre + 1, status |-> s] : s \in MonitorStatuses }] :
          n \in 0..(MaxPods - 1) }

\* the samples of new pods that contain pod
SamplesWith(pod) ==
  { before \o <<pod>> \o after : before \in CompanionLists, after \in CompanionLists }

\* C25: a pod that findErrorPods returns is refused by isPodReadyAndHealthy;
\* in every sample of new pods that contains it, it is not counted, so the
\* ready count is below the number of pods of the sample, and with exactly
\* the desired number of new pods neither the completion test nor the
\* stability test passes.
C25_ErroredIsUnhealthy ==
  (evalStage = "done" /\ evalErrors = <<evalPod>>) =>
    /\ ~evalHealthy
    /\ countReadyAndHealthyPods(<<evalPod>>) = 0
    /\ \A sample \in SamplesWith(evalPod) :
         LET ready == countReadyAndHealthyPods(sample)
             desired == Len(sample)
         IN  /\ RolloutFailed(sample)
             /\ ready < desired
             /\ ~RolloutComplete(ready, desired, 0)
             /\ ~StabilityConfirmed(ready, desired)

\* a Running pod whose containers are all ready and out of a restart storm
\* is errored by a container waiting in CrashLoopBackOff, and refused
C25_Witness ==
  /\ evalStage = "done"
  /\ evalErrors = <<evalPod>>
  /\ ~evalHealthy
  /\ evalPod.status.phase = "Running"
  /\ ~notReadyCondition(evalPod)
  /\ \A i \in 1..Len(evalPod.status.containerStatuses) :
        /\ evalPod.status.containerStatuses[i].ready
        /\ ~restartStorm(evalPod.status.containerStatuses[i])

====
